---------------------------- MODULE Spec2Model ----------------------------
(***************************************************************************)
(* A model of the Obsidian note-diff plugin: the DiffModal (file loading,   *)
(* file selection, diff rendering) of src/src/DiffModal.ts and the         *)
(* file-menu flow of the plugin of src/src/main.ts.                         *)
(*                                                                         *)
(* A text is a sequence of one-character strings.  The line diff itself is  *)
(* the library call Diff.diffLines(a, b, {newlineIsToken: true,             *)
(* ignoreWhitespace: false}) of DiffModal.ts:179-186; it is modelled by    *)
(* the algorithm of that library (tokenize, removeEmpty, the O(ND)          *)
(* edit-graph search with its diagonal preference, buildValues).           *)
(***************************************************************************)
EXTENDS Integers, Sequences, FiniteSets, Bags, TLC

VARIABLES
    vault,                 \* file -> text: what app.vault.cachedRead yields
    file1,                 \* DiffModal.file1
    file2,                 \* DiffModal.file2 (NoFile for null)
    initialFile2Provided,  \* DiffModal.initialFile2Provided
    file1Content,          \* DiffModal.file1Content
    file2Content,          \* DiffModal.file2Content
    resultEl,              \* DiffModal.resultEl: its text and its child spans
    diffResult,            \* the diffResult of the last updateDiffDisplay call
    loads,                 \* the bag of loadFilesContent calls in flight, with their callers
    opened,                \* whether onOpen has started (the search box exists)
    notices,               \* the Notice text of the last step ("" for none)
    lastCall,              \* the call that last wrote the result area, with its inputs
    lastSelected,          \* the file of the last suggestion click (NoFile: none, or cleared)
    fileToCompare,         \* NoteDiffPlugin.fileToCompare (NoFile for null)
    menus,                 \* the file menus built by the file-menu handler
    registered,            \* whether the file-menu handler is registered
    modal,                 \* the DiffModal last opened by a "Compare with" click
    modalCount             \* how many DiffModals "Compare with" clicks have opened

vars == <<vault, file1, file2, initialFile2Provided, file1Content, file2Content,
          resultEl, diffResult, loads, opened, notices, lastCall, lastSelected,
          fileToCompare, menus, registered, modal, modalCount>>

modalVars == <<vault, file1, file2, initialFile2Provided, file1Content,
               file2Content, resultEl, diffResult, loads, opened, notices, lastCall,
               lastSelected>>

pluginVars == <<fileToCompare, menus, registered, modal, modalCount>>

-----------------------------------------------------------------------------
(* Texts *)

NL == "\n"

Chars == {"a", "b", NL}

MaxLen == 3

BoundedTexts == UNION {[1..n -> Chars] : n \in 0..MaxLen}

\* Longer texts of interest: one replaced line between equal context, a
\* trailing-space difference, an unterminated last line.
ExampleTexts ==
    { <<"a", NL, "b", NL>>, <<"a", NL, "c", NL>>,
      <<"x", NL, "y", NL>>,
      <<"a", " ", NL>>,
      <<"a", NL, "b", NL, "a", NL>>, <<"a", NL, "c", NL, "a", NL>>,
      <<"a", NL, NL, "b">> }

Texts == BoundedTexts \cup ExampleTexts

EndsWithNL(s) == Len(s) > 0 /\ s[Len(s)] = NL

RECURSIVE join(_)
\* Array.prototype.join(""): the concatenation of the tokens.
join(tokens) ==
    IF tokens = <<>> THEN <<>> ELSE Head(tokens) \o join(Tail(tokens))

RECURSIVE SplitFrom(_, _, _)
SplitFrom(s, i, cur) ==
    IF i > Len(s) THEN <<cur>>
    ELSE IF s[i] = NL THEN <<cur>> \o SplitFrom(s, i + 1, <<>>)
    ELSE SplitFrom(s, i + 1, Append(cur, s[i]))

\* String.prototype.split("\n"): the pieces between the line breaks; a text
\* ending in a line break yields a last, empty piece, and the empty text
\* yields one empty piece.
Split(s) == SplitFrom(s, 1, <<>>)

RECURSIVE SplitKeepFrom(_, _, _)
SplitKeepFrom(s, i, cur) ==
    IF i > Len(s) THEN <<cur>>
    ELSE IF s[i] = NL THEN <<cur, <<NL>>>> \o SplitKeepFrom(s, i + 1, <<>>)
    ELSE SplitKeepFrom(s, i + 1, Append(cur, s[i]))

\* value.split(/(\n|\r\n)/): as Split, with the separators kept at the odd
\* (0-based) places.
SplitKeep(s) == SplitKeepFrom(s, 1, <<>>)

-----------------------------------------------------------------------------
(* Diff.diffLines *)

RECURSIVE mergeSeparators(_, _, _)
mergeSeparators(pieces, i, ret) ==
    IF i > Len(pieces) THEN ret
    ELSE IF i % 2 = 0
         THEN mergeSeparators(pieces, i + 1,
                  [ret EXCEPT ![Len(ret)] = @ \o pieces[i]])
         ELSE mergeSeparators(pieces, i + 1, Append(ret, pieces[i]))

\* lineDiff.tokenize: the final empty piece of a text ending in a line break
\* is dropped; with newlineIsToken every piece, line breaks included, is a
\* token of its own, otherwise a line break joins the line before it.
tokenize(value, newlineIsToken) ==
    LET all == SplitKeep(value)
        linesAndNewlines ==
            IF all[Len(all)] = <<>> THEN SubSeq(all, 1, Len(all) - 1) ELSE all
    IN  IF newlineIsToken THEN linesAndNewlines
        ELSE mergeSeparators(linesAndNewlines, 1, <<>>)

\* Diff.removeEmpty: the empty tokens are dropped.
removeEmpty(tokens) == SelectSeq(tokens, LAMBDA t : t # <<>>)

NoPath == [defined |-> FALSE, newPos |-> 0, components |-> <<>>]

\* Diff.pushComponent: one more token for the last component when it is of
\* the same kind, a new component otherwise.
pushComponent(components, added, removed) ==
    LET n == Len(components) IN
    IF n > 0 /\ components[n].added = added /\ components[n].removed = removed
    THEN [components EXCEPT ![n].count = @ + 1]
    ELSE Append(components, [count |-> 1, added |-> added,
                             removed |-> removed, value |-> <<>>])

RECURSIVE CommonRun(_, _, _, _)
CommonRun(newString, oldString, newPos, oldPos) ==
    IF /\ newPos + 1 < Len(newString)
       /\ oldPos + 1 < Len(oldString)
       /\ newString[newPos + 2] = oldString[oldPos + 2]
    THEN 1 + CommonRun(newString, oldString, newPos + 1, oldPos + 1)
    ELSE 0

\* Diff.extractCommon: follow the diagonal while the tokens are equal.
extractCommon(basePath, newString, oldString, diagonalPath) ==
    LET commonCount == CommonRun(newString, oldString, basePath.newPos,
                                 basePath.newPos - diagonalPath)
    IN  [defined |-> TRUE,
         newPos |-> basePath.newPos + commonCount,
         components |->
            IF commonCount > 0
            THEN Append(basePath.components,
                        [count |-> commonCount, added |-> FALSE,
                         removed |-> FALSE, value |-> <<>>])
            ELSE basePath.components]

RECURSIVE buildFrom(_, _, _, _, _, _)
buildFrom(components, componentPos, newPos, oldPos, newString, oldString) ==
    IF componentPos > Len(components) THEN components
    ELSE
      LET c == components[componentPos] IN
      IF ~c.removed
      THEN LET valued == [c EXCEPT !.value =
                            join(SubSeq(newString, newPos + 1, newPos + c.count))]
           IN  buildFrom([components EXCEPT ![componentPos] = valued],
                         componentPos + 1, newPos + c.count,
                         IF c.added THEN oldPos ELSE oldPos + c.count,
                         newString, oldString)
      ELSE LET valued == [c EXCEPT !.value =
                            join(SubSeq(oldString, oldPos + 1, oldPos + c.count))]
               placed == [components EXCEPT ![componentPos] = valued]
               \* removes are output before the adds they follow
               swapped ==
                   IF componentPos > 1 /\ components[componentPos - 1].added
                   THEN [placed EXCEPT ![componentPos - 1] = valued,
                                       ![componentPos] = components[componentPos - 1]]
                   ELSE placed
           IN  buildFrom(swapped, componentPos + 1, newPos, oldPos + c.count,
                         newString, oldString)

\* buildValues: each component gets the text of its tokens.
buildValues(components, newString, oldString) ==
    buildFrom(components, 1, 0, 0, newString, oldString)

RECURSIVE execEditLength(_, _, _, _, _)
\* Diff.diff's worker: every diagonal of one edit length, then the next
\* edit length, until a path reaches the end of both token lists.
execEditLength(bestPath, editLength, diagonalPath, newString, oldString) ==
    IF diagonalPath > editLength
    THEN execEditLength(bestPath, editLength + 1, -(editLength + 1),
                        newString, oldString)
    ELSE
      LET addPath == bestPath[diagonalPath - 1]
          removePath == bestPath[diagonalPath + 1]
          oldPos == (IF removePath.defined THEN removePath.newPos ELSE 0)
                       - diagonalPath
          cleared == IF addPath.defined
                     THEN [bestPath EXCEPT ![diagonalPath - 1] = NoPath]
                     ELSE bestPath
          canAdd == addPath.defined /\ addPath.newPos + 1 < Len(newString)
          canRemove == removePath.defined /\ 0 <= oldPos /\ oldPos < Len(oldString)
      IN
      IF ~canAdd /\ ~canRemove
      THEN execEditLength([cleared EXCEPT ![diagonalPath] = NoPath],
                          editLength, diagonalPath + 2, newString, oldString)
      ELSE
        LET stepped ==
                IF ~canAdd \/ (canRemove /\ addPath.newPos < removePath.newPos)
                THEN [removePath EXCEPT
                        !.components = pushComponent(@, FALSE, TRUE)]
                ELSE [addPath EXCEPT
                        !.newPos = @ + 1,
                        !.components = pushComponent(@, TRUE, FALSE)]
            basePath == extractCommon(stepped, newString, oldString, diagonalPath)
        IN
        IF /\ basePath.newPos + 1 >= Len(newString)
           /\ basePath.newPos - diagonalPath + 1 >= Len(oldString)
        THEN buildValues(basePath.components, newString, oldString)
        ELSE execEditLength([cleared EXCEPT ![diagonalPath] = basePath],
                            editLength, diagonalPath + 2, newString, oldString)

\* Diff.diff over two token lists.
diffTokens(oldString, newString) ==
    LET maxEditLength == Len(newString) + Len(oldString)
        start == extractCommon([defined |-> TRUE, newPos |-> -1,
                                components |-> <<>>],
                               newString, oldString, 0)
        bestPath == [d \in -(maxEditLength + 1)..(maxEditLength + 1) |->
                        IF d = 0 THEN start ELSE NoPath]
    IN  IF /\ start.newPos + 1 >= Len(newString)
           /\ start.newPos + 1 >= Len(oldString)
        THEN << [count |-> Len(newString), added |-> FALSE, removed |-> FALSE,
                 value |-> join(newString)] >>
        ELSE execEditLength(bestPath, 1, -1, newString, oldString)

\* Diff.diffLines(oldStr, newStr, {newlineIsToken}).
diffLines(oldStr, newStr, newlineIsToken) ==
    diffTokens(removeEmpty(tokenize(oldStr, newlineIsToken)),
               removeEmpty(tokenize(newStr, newlineIsToken)))


-----------------------------------------------------------------------------
(* DiffModal: the result area and updateDiffDisplay *)

NoFile == "null"

MdFiles == {"f1.md", "f2.md", "f3.md"}

\* HTMLElement.setText: the element holds the text and no child.
setText(text) == [text |-> text, children |-> <<>>]

\* The result area left as it is.
keptResult(el) == el

\* this.resultEl.empty(): the previous results are cleared.
clearedResult(el) == [text |-> "", children |-> <<>>]

\* this.resultEl.appendChild(fragment)
appendChild(el, fragment) == [el EXCEPT !.children = @ \o fragment]

\* The call with its two texts the other way round.
callDiffLinesSwapped(content1, content2) == diffLines(content2, content1, TRUE)

\* The arguments of the Diff.diffLines call of updateDiffDisplay.
callDiffLines(content1, content2) == diffLines(content1, content2, TRUE)

\* The split without the pop of the last empty piece.
splitLinesKeepLast(value) == Split(value)

\* part.value.split("\n"), the last piece popped when it is empty.
splitLines(value) ==
    LET lines == Split(value) IN
    IF lines[Len(lines)] = <<>> THEN SubSeq(lines, 1, Len(lines) - 1) ELSE lines

partClass(part) ==
    IF part.added THEN "diff-added"
    ELSE IF part.removed THEN "diff-removed"
    ELSE "diff-unchanged"

linePrefix(part) ==
    IF part.removed THEN <<"-", " ">>
    ELSE IF part.added THEN <<"+", " ">>
    ELSE <<" ", " ">>

\* The break test without its endsWith("\n") half.
needsBreakInnerOnly(index, lines, value) == index < Len(lines)

\* Whether a <br> follows the line at 1-based place index.
needsBreak(index, lines, value) == index < Len(lines) \/ EndsWithNL(value)

\* One span of the fragment: a line span per line of the part.
renderPart(part) ==
    LET lines == splitLines(part.value) IN
    [cls |-> partClass(part),
     lines |-> [index \in 1..Len(lines) |->
                  [textContent |-> linePrefix(part) \o lines[index],
                   br |-> needsBreak(index, lines, part.value)]]]

\* The guard of updateDiffDisplay: an empty string is falsy.
contentReady(f1, f2, content1, content2) ==
    ~(f1 = NoFile \/ f2 = NoFile \/ content1 = <<>> \/ content2 = <<>>)

\* updateDiffDisplay: the new result area and the diffResult it computed
\* (none when it returns before the diff).
updateDiffDisplay(el, f1, f2, content1, content2) ==
    IF ~contentReady(f1, f2, content1, content2)
    THEN [resultEl |->
             IF f2 = NoFile THEN setText("Select a file to compare against.")
             ELSE IF content1 = <<>> \/ content2 = <<>>
                  THEN setText("Waiting for file content...")
                  ELSE setText("Ready for comparison."),
          diffResult |-> <<>>]
    ELSE LET parts == callDiffLines(content1, content2)
             fragment == [k \in 1..Len(parts) |-> renderPart(parts[k])]
         IN  [resultEl |-> appendChild(clearedResult(el), fragment),
              diffResult |-> parts]

\* What a call of updateDiffDisplay leaves behind: the result area, the
\* diffResult and the record of the call.
Rendered(f2, content1, content2) ==
    LET r == updateDiffDisplay(resultEl, file1, f2, content1, content2) IN
    /\ resultEl' = r.resultEl
    /\ diffResult' = r.diffResult
    /\ lastCall' = [op |-> "updateDiffDisplay",
                    file2 |-> f2, content1 |-> content1, content2 |-> content2,
                    repeated |-> /\ lastCall.op = "updateDiffDisplay"
                                 /\ lastCall.file2 = f2
                                 /\ lastCall.content1 = content1
                                 /\ lastCall.content2 = content2]

NoCall == [op |-> "none", file2 |-> NoFile,
           content1 |-> <<>>, content2 |-> <<>>, repeated |-> FALSE]

\* A setText on the result area outside updateDiffDisplay.
Shown(text) ==
    /\ resultEl' = setText(text)
    /\ diffResult' = <<>>
    /\ lastCall' = [NoCall EXCEPT !.op = "setText"]

IdlePlugin ==
    /\ fileToCompare = NoFile
    /\ menus = {}
    /\ registered = FALSE
    /\ modal = [file1 |-> NoFile, file2 |-> NoFile]
    /\ modalCount = 0

-----------------------------------------------------------------------------
(* The renderer on two loaded texts *)

\* Both files have been read: the modal holds the vault's texts.
RenderInit ==
    /\ \E a \in Texts, b \in Texts :
          /\ vault = [f \in MdFiles |-> IF f = "f1.md" THEN a ELSE b]
          /\ file1Content = a
          /\ file2Content = b
    /\ file1 = "f1.md"
    /\ file2 = "f2.md"
    /\ initialFile2Provided = TRUE
    /\ resultEl = setText("Loading comparison...")
    /\ diffResult = <<>>
    /\ loads = EmptyBag
    /\ opened = TRUE
    /\ notices = ""
    /\ lastCall = NoCall
    /\ lastSelected = NoFile
    /\ IdlePlugin

\* this.updateDiffDisplay() on the loaded texts.
Render ==
    /\ Rendered(file2, file1Content, file2Content)
    /\ UNCHANGED <<vault, file1, file2, initialFile2Provided, file1Content,
                   file2Content, loads, opened, notices>>
    /\ UNCHANGED lastSelected
    /\ UNCHANGED pluginVars

RenderNext == Render

RenderSpec == RenderInit /\ [][RenderNext]_vars


-----------------------------------------------------------------------------
(* DiffModal: onOpen, loadFilesContent, selectFile, the search box *)

MaxLoads == 2

VaultTexts == { <<>>, <<"a", NL>>, <<"b", NL>> }

\* A loadFilesContent call at its first await, cachedRead(this.file1);
\* latest marks the call made by the most recent selectFile.
NewLoad(caller) ==
    [caller |-> caller, pc |-> "read1", target |-> NoFile, result |-> FALSE,
     latest |-> FALSE]

\* The call has returned result; its caller has not resumed yet.
Returned(load, result) == [load EXCEPT !.pc = "returned", !.result = result]

\* The calls in flight.
InFlight == BagToSet(loads)

Started(load) == loads (+) SetToBag({load})

\* The calls in flight once a newer selectFile call has been made: none of
\* them is the latest any more.
Superseded ==
    LET olds == {[load EXCEPT !.latest = FALSE] : load \in BagToSet(loads)}
    IN  [old \in olds |->
            CopiesIn(old, loads) + CopiesIn([old EXCEPT !.latest = TRUE], loads)]

Finished(load) == loads (-) SetToBag({load})

\* The call load goes on as next.
Moved(load, next) == (loads (-) SetToBag({load})) (+) SetToBag({next})

\* No caller is about to resume. A caller resumes from a call that has
\* returned before any other read completes and before any user event.
NoPendingResume == \A load \in InFlight : load.pc # "returned"

ErrorNotices == {"Error reading content", "Internal error: File 2 missing."}

\* The constructor: file1, and file2 when it is given.
Init ==
    /\ vault \in [MdFiles -> VaultTexts]
    /\ file1 = "f1.md"
    /\ file2 \in {NoFile, "f2.md"}
    /\ initialFile2Provided = (file2 # NoFile)
    /\ file1Content = <<>>
    /\ file2Content = <<>>
    /\ resultEl = [text |-> "", children |-> <<>>]
    /\ diffResult = <<>>
    /\ loads = EmptyBag
    /\ opened = FALSE
    /\ notices = ""
    /\ lastCall = NoCall
    /\ lastSelected = NoFile
    /\ IdlePlugin

\* onOpen up to its await: the result area is created and the load starts.
OnOpen ==
    /\ ~opened
    /\ opened' = TRUE
    /\ Shown("Loading comparison...")
    /\ loads' = Started(NewLoad("onOpen"))
    /\ notices' = ""
    /\ UNCHANGED <<vault, file1, file2, initialFile2Provided, file1Content,
                   file2Content>>
    /\ UNCHANGED lastSelected
    /\ UNCHANGED pluginVars

\* cachedRead(this.file1) resolves: file1Content is set, then file2 is read
\* when there is one.
Read1Ok(load) ==
    /\ load.pc = "read1"
    /\ NoPendingResume
    /\ file1Content' = vault[file1]
    /\ IF file2 # NoFile
       THEN /\ loads' = Moved(load, [load EXCEPT !.pc = "read2", !.target = file2])
            /\ notices' = ""
       ELSE IF initialFile2Provided
       THEN /\ loads' = Moved(load, Returned(load, FALSE))
            /\ notices' = "Internal error: File 2 missing."
       ELSE /\ loads' = Moved(load, Returned(load, TRUE))
            /\ notices' = ""
    /\ UNCHANGED <<vault, file1, file2, initialFile2Provided, file2Content,
                   resultEl, diffResult, opened, lastCall>>
    /\ UNCHANGED lastSelected
    /\ UNCHANGED pluginVars

\* cachedRead(this.file1) rejects: the catch block.
Read1Fail(load) ==
    /\ load.pc = "read1"
    /\ NoPendingResume
    /\ loads' = Moved(load, Returned(load, FALSE))
    /\ notices' = "Error reading content"
    /\ UNCHANGED <<vault, file1, file2, initialFile2Provided, file1Content,
                   file2Content, resultEl, diffResult, opened, lastCall>>
    /\ UNCHANGED lastSelected
    /\ UNCHANGED pluginVars

\* cachedRead(this.file2) resolves.
Read2Ok(load) ==
    /\ load.pc = "read2"
    /\ NoPendingResume
    /\ file2Content' = vault[load.target]
    /\ loads' = Moved(load, Returned(load, TRUE))
    /\ notices' = ""
    /\ UNCHANGED <<vault, file1, file2, initialFile2Provided, file1Content,
                   resultEl, diffResult, opened, lastCall>>
    /\ UNCHANGED lastSelected
    /\ UNCHANGED pluginVars

\* cachedRead(this.file2) rejects: the catch block.
Read2Fail(load) ==
    /\ load.pc = "read2"
    /\ NoPendingResume
    /\ loads' = Moved(load, Returned(load, FALSE))
    /\ notices' = "Error reading content"
    /\ UNCHANGED <<vault, file1, file2, initialFile2Provided, file1Content,
                   file2Content, resultEl, diffResult, opened, lastCall>>
    /\ UNCHANGED lastSelected
    /\ UNCHANGED pluginVars

\* onOpen after its await.
OnOpenResume(load) ==
    /\ load.pc = "returned"
    /\ load.caller = "onOpen"
    /\ loads' = Finished(load)
    /\ IF load.result
       THEN Rendered(file2, file1Content, file2Content)
       ELSE Shown("Error loading file content.")
    /\ notices' = ""
    /\ UNCHANGED <<vault, file1, file2, initialFile2Provided, file1Content,
                   file2Content, opened>>
    /\ UNCHANGED lastSelected
    /\ UNCHANGED pluginVars

\* A suggestion is clicked: selectFile up to its await.
SelectFile(file) ==
    /\ opened
    /\ ~initialFile2Provided
    /\ NoPendingResume
    /\ file # file1
    /\ BagCardinality(loads) < MaxLoads
    /\ file2' = file
    /\ notices' = "Selected"
    /\ loads' = Superseded
                 (+) SetToBag({[NewLoad("selectFile") EXCEPT !.latest = TRUE]})
    /\ lastSelected' = file
    /\ UNCHANGED <<vault, file1, initialFile2Provided, file1Content,
                   file2Content, resultEl, diffResult, opened, lastCall>>
    /\ UNCHANGED pluginVars

\* The selection left as it was.
selectionKept == [file2 |-> file2, file2Content |-> file2Content]

\* The selection a failed load leaves: file2 and its content are reset.
selectionAfterFailure == [file2 |-> NoFile, file2Content |-> <<>>]

\* selectFile after its await.
SelectFileResume(load) ==
    /\ load.pc = "returned"
    /\ load.caller = "selectFile"
    /\ loads' = Finished(load)
    /\ IF load.result
       THEN /\ Rendered(file2, file1Content, file2Content)
            /\ UNCHANGED <<file2, file2Content>>
       ELSE /\ file2' = selectionAfterFailure.file2
            /\ file2Content' = selectionAfterFailure.file2Content
            /\ Rendered(selectionAfterFailure.file2, file1Content,
                        selectionAfterFailure.file2Content)
    /\ notices' = ""
    /\ UNCHANGED <<vault, file1, initialFile2Provided, file1Content, opened>>
    /\ UNCHANGED lastSelected
    /\ UNCHANGED pluginVars

\* search.onChange with an empty value.
SearchClear ==
    /\ opened
    /\ ~initialFile2Provided
    /\ NoPendingResume
    /\ file2' = NoFile
    /\ Rendered(NoFile, file1Content, file2Content)
    /\ notices' = ""
    /\ lastSelected' = NoFile
    /\ UNCHANGED <<vault, file1, initialFile2Provided, file1Content,
                   file2Content, loads, opened>>
    /\ UNCHANGED pluginVars

Next ==
    \/ OnOpen
    \/ \E load \in InFlight : Read1Ok(load)
    \/ \E load \in InFlight : Read1Fail(load)
    \/ \E load \in InFlight : Read2Ok(load)
    \/ \E load \in InFlight : Read2Fail(load)
    \/ \E load \in InFlight : OnOpenResume(load)
    \/ \E file \in MdFiles : SelectFile(file)
    \/ \E load \in InFlight : SelectFileResume(load)
    \/ SearchClear

Spec == Init /\ [][Next]_vars

-----------------------------------------------------------------------------
(* NoteDiffPlugin: the file-menu handler, its menu items, onunload *)

MaxMenus == 2

MaxModals == 2

\* The files a file menu can be opened on; one of them is no Markdown file.
MenuFiles == MdFiles \cup {"img.png"}

\* file instanceof TFile && file.extension === "md"
IsMarkdown(file) == file \in MdFiles

NoModal == [file1 |-> NoFile, file2 |-> NoFile]

\* The plugin after onload, no modal in play.
MenuInit ==
    /\ fileToCompare = NoFile
    /\ menus = {}
    /\ registered = TRUE
    /\ modal = NoModal
    /\ modalCount = 0
    /\ vault = [f \in MdFiles |-> <<>>]
    /\ file1 = NoFile
    /\ file2 = NoFile
    /\ initialFile2Provided = FALSE
    /\ file1Content = <<>>
    /\ file2Content = <<>>
    /\ resultEl = [text |-> "", children |-> <<>>]
    /\ diffResult = <<>>
    /\ loads = EmptyBag
    /\ opened = FALSE
    /\ notices = ""
    /\ lastCall = NoCall
    /\ lastSelected = NoFile

\* Whether the handler adds the "Compare with" item to the menu of file.
showsCompare(file) == fileToCompare # NoFile /\ fileToCompare # file

\* The "file-menu" event: the handler builds the items of the menu of file.
\* The host keeps the menu, and its items can be clicked, until it closes it.
FileMenu(file) ==
    /\ registered
    /\ Cardinality(menus) < MaxMenus
    /\ menus' = menus \cup
          { IF ~IsMarkdown(file)
            THEN [file |-> file, select |-> FALSE, compare |-> FALSE]
            ELSE [file |-> file, select |-> TRUE, compare |-> showsCompare(file)] }
    /\ notices' = ""
    /\ UNCHANGED <<fileToCompare, registered, modal, modalCount>>
    /\ UNCHANGED <<vault, file1, file2, initialFile2Provided, file1Content,
                   file2Content, resultEl, diffResult, loads, opened, lastCall,
                   lastSelected>>

\* "Select for compare" is clicked.
SelectClick(menu) ==
    /\ menu.select
    /\ fileToCompare' = menu.file
    /\ notices' = "selected for comparison."
    /\ UNCHANGED <<menus, registered, modal, modalCount>>
    /\ UNCHANGED <<vault, file1, file2, initialFile2Provided, file1Content,
                   file2Content, resultEl, diffResult, loads, opened, lastCall,
                   lastSelected>>

\* The click handler opens the modal whatever fileToCompare is.
canCompareAlways == TRUE

\* if (this.fileToCompare) of the "Compare with" click handler.
canCompare == fileToCompare # NoFile

\* "Compare with: ..." is clicked.
CompareClick(menu) ==
    /\ menu.compare
    /\ modalCount < MaxModals
    /\ IF canCompare
       THEN /\ modal' = [file1 |-> fileToCompare, file2 |-> menu.file]
            /\ modalCount' = modalCount + 1
            /\ notices' = ""
       ELSE /\ notices' = "Error: First file for comparison is not selected anymore."
            /\ UNCHANGED <<modal, modalCount>>
    /\ UNCHANGED <<fileToCompare, menus, registered>>
    /\ UNCHANGED <<vault, file1, file2, initialFile2Provided, file1Content,
                   file2Content, resultEl, diffResult, loads, opened, lastCall,
                   lastSelected>>

\* The host closes a menu.
CloseMenu(menu) ==
    /\ menus' = menus \ {menu}
    /\ notices' = ""
    /\ UNCHANGED <<fileToCompare, registered, modal, modalCount>>
    /\ UNCHANGED <<vault, file1, file2, initialFile2Provided, file1Content,
                   file2Content, resultEl, diffResult, loads, opened, lastCall,
                   lastSelected>>

\* onunload: the selection is cleared; the registered handler is detached.
OnUnload ==
    /\ registered
    /\ fileToCompare' = NoFile
    /\ registered' = FALSE
    /\ notices' = ""
    /\ UNCHANGED <<menus, modal, modalCount>>
    /\ UNCHANGED <<vault, file1, file2, initialFile2Provided, file1Content,
                   file2Content, resultEl, diffResult, loads, opened, lastCall,
                   lastSelected>>

MenuNext ==
    \/ \E file \in MenuFiles : FileMenu(file)
    \/ \E menu \in menus : SelectClick(menu)
    \/ \E menu \in menus : CompareClick(menu)
    \/ \E menu \in menus : CloseMenu(menu)
    \/ OnUnload

MenuSpec == MenuInit /\ [][MenuNext]_vars

-----------------------------------------------------------------------------
(* What the claims speak of *)

RECURSIVE LinesOf(_)
\* The lines of a text: each run of characters up to a line break, and the
\* unterminated rest when there is one.
LinesOf(s) ==
    IF s = <<>> THEN <<>>
    ELSE LET ends == {i \in 1..Len(s) : s[i] = NL}
             k == IF ends = {} THEN Len(s) + 1
                  ELSE CHOOSE i \in ends : \A j \in ends : i <= j
         IN  <<SubSeq(s, 1, k - 1)>> \o LinesOf(SubSeq(s, k + 1, Len(s)))

RECURSIVE FlatLines(_)
\* The rendered lines of the result area, in order, each with its span's class.
FlatLines(spans) ==
    IF spans = <<>> THEN <<>>
    ELSE [i \in 1..Len(Head(spans).lines) |->
            [cls |-> Head(spans).cls,
             textContent |-> Head(spans).lines[i].textContent,
             br |-> Head(spans).lines[i].br]]
         \o FlatLines(Tail(spans))

RenderedLines == FlatLines(resultEl.children)

\* The rendered lines of one class, without their break flags.
LinesOfClass(cls) ==
    LET ls == SelectSeq(RenderedLines, LAMBDA l : l.cls = cls)
    IN  [i \in 1..Len(ls) |-> ls[i].textContent]

\* The text of the parts that belong to the old (new) document.
OldSide(parts) == join([k \in 1..Len(parts) |->
                          IF parts[k].added THEN <<>> ELSE parts[k].value])

NewSide(parts) == join([k \in 1..Len(parts) |->
                          IF parts[k].removed THEN <<>> ELSE parts[k].value])

\* The last step was an updateDiffDisplay call.
Updated == lastCall.op = "updateDiffDisplay"

\* C1: for all texts A and B that updateDiffDisplay diffs (both non-empty),
\* a segment sequence is produced, each segment is of one kind, the
\* unchanged and removed segments concatenate, in order, to A and the
\* unchanged and added segments to B.
C1_Reconstruction ==
    (Updated /\ lastCall.file2 # NoFile
        /\ lastCall.content1 # <<>> /\ lastCall.content2 # <<>>)
    => /\ diffResult # <<>>
       /\ \A k \in 1..Len(diffResult) :
             ~(diffResult[k].added /\ diffResult[k].removed)
       /\ OldSide(diffResult) = lastCall.content1
       /\ NewSide(diffResult) = lastCall.content2

\* A diff with a removed, an added and an unchanged segment has been computed.
C1_Witness ==
    /\ Updated
    /\ \E k \in 1..Len(diffResult) : diffResult[k].removed
    /\ \E k \in 1..Len(diffResult) : diffResult[k].added
    /\ \E k \in 1..Len(diffResult) :
          ~diffResult[k].added /\ ~diffResult[k].removed

\* Both texts are those read from the vault.
BothLoaded == file1Content = vault[file1] /\ file2Content = vault[file2]

\* The one span of class cls that renders every line of text with prefix.
WholeTextSpan(cls, prefix, text) ==
    /\ Len(resultEl.children) = 1
    /\ resultEl.children[1].cls = cls
    /\ LinesOfClass(cls) = [i \in 1..Len(LinesOf(text)) |->
                              prefix \o LinesOf(text)[i]]

\* C3: a loaded empty document is loaded, not missing: with both files read,
\* A empty and B non-empty, the display is one added segment with every line
\* of B prefixed "+ "; with B empty and A non-empty, one removed segment
\* with every line of A prefixed "- ".
C3_EmptyDocumentIsLoaded ==
    (Updated /\ BothLoaded)
    => /\ (file1Content = <<>> /\ file2Content # <<>>)
            => WholeTextSpan("diff-added", <<"+", " ">>, file2Content)
       /\ (file2Content = <<>> /\ file1Content # <<>>)
            => WholeTextSpan("diff-removed", <<"-", " ">>, file1Content)

\* B differs from A in exactly the line at place i, a non-empty line of
\* both, and both texts are newline-terminated.
ReplacedAt(a, b, i) ==
    /\ EndsWithNL(a) /\ EndsWithNL(b)
    /\ Len(LinesOf(a)) = Len(LinesOf(b))
    /\ i \in 1..Len(LinesOf(a))
    /\ LinesOf(a)[i] # <<>> /\ LinesOf(b)[i] # <<>>
    /\ \A j \in 1..Len(LinesOf(a)) : (LinesOf(a)[j] = LinesOf(b)[j]) <=> (j # i)

WithoutPlace(seq, i) == SubSeq(seq, 1, i - 1) \o SubSeq(seq, i + 1, Len(seq))

\* C4: "a\nb\n" against "a\nc\n" renders exactly unchanged "a", removed "b",
\* added "c"; and whenever B replaces one line of A, the old line is the one
\* removed rendered line, the new line the one added rendered line, and the
\* other rendered lines are the unchanged lines of A.
C4_ReplacedLine ==
    Updated =>
      /\ (file1Content = <<"a", NL, "b", NL>> /\ file2Content = <<"a", NL, "c", NL>>)
           => [i \in 1..Len(RenderedLines) |->
                  <<RenderedLines[i].cls, RenderedLines[i].textContent>>]
              = << <<"diff-unchanged", <<" ", " ", "a">>>>,
                   <<"diff-removed", <<"-", " ", "b">>>>,
                   <<"diff-added", <<"+", " ", "c">>>> >>
      /\ \A i \in 1..Len(file1Content) :
           ReplacedAt(file1Content, file2Content, i)
           => /\ LinesOfClass("diff-removed")
                    = << <<"-", " ">> \o LinesOf(file1Content)[i] >>
              /\ LinesOfClass("diff-added")
                    = << <<"+", " ">> \o LinesOf(file2Content)[i] >>
              /\ LinesOfClass("diff-unchanged")
                    = [j \in 1..(Len(LinesOf(file1Content)) - 1) |->
                         <<" ", " ">> \o WithoutPlace(LinesOf(file1Content), i)[j]]

\* C5: A rendered against itself gives only unchanged rendered lines, prefix
\* "  ", exactly one per line of A, in order.
C5_SelfDiff ==
    (Updated /\ lastCall.file2 # NoFile /\ lastCall.content1 = lastCall.content2)
    => [i \in 1..Len(RenderedLines) |->
           <<RenderedLines[i].cls, RenderedLines[i].textContent>>]
       = [i \in 1..Len(LinesOf(lastCall.content1)) |->
           <<"diff-unchanged", <<" ", " ">> \o LinesOf(lastCall.content1)[i]>>]

\* A text of two terminated lines has been rendered against itself.
C5_Witness ==
    /\ Updated
    /\ lastCall.content1 = lastCall.content2
    /\ EndsWithNL(lastCall.content1)
    /\ Len(RenderedLines) = 2

\* C6: every rendered line of every segment has the prefix of its segment's
\* kind ("+ " added, "- " removed, "  " otherwise) and is followed by a line
\* break unless it is the last line of its segment and the segment's text
\* does not end in a line break.
C6_PrefixAndBreak ==
    Updated =>
      /\ Len(resultEl.children) = Len(diffResult)
      /\ \A k \in 1..Len(diffResult) :
           LET part == diffResult[k]
               lines == resultEl.children[k].lines
           IN  \A i \in 1..Len(lines) :
                 /\ Len(lines[i].textContent) >= 2
                 /\ SubSeq(lines[i].textContent, 1, 2) =
                       (IF part.added THEN <<"+", " ">>
                        ELSE IF part.removed THEN <<"-", " ">>
                        ELSE <<" ", " ">>)
                 /\ lines[i].br <=>
                       ~(i = Len(lines) /\ ~EndsWithNL(part.value))

\* Segments of all three kinds are rendered, one with a last line that is
\* followed by a break and one with a last line that is not.
C6_Witness ==
    /\ Updated
    /\ \E k \in 1..Len(diffResult) : diffResult[k].removed
    /\ \E k \in 1..Len(diffResult) : diffResult[k].added
    /\ \E k \in 1..Len(resultEl.children) :
          LET lines == resultEl.children[k].lines
          IN  Len(lines) >= 2 /\ lines[Len(lines)].br
    /\ \E k \in 1..Len(resultEl.children) :
          LET lines == resultEl.children[k].lines
          IN  Len(lines) >= 1 /\ ~lines[Len(lines)].br

\* The segment at place k starts a line of each document it belongs to.
StartsLine(parts, k) ==
    LET before == SubSeq(parts, 1, k - 1) IN
    /\ parts[k].added \/ OldSide(before) = <<>> \/ EndsWithNL(OldSide(before))
    /\ parts[k].removed \/ NewSide(before) = <<>> \/ EndsWithNL(NewSide(before))

\* C7: for every segment of the diff, segments of line breaks only included,
\* the split never contributes a trailing empty line: the segment renders no
\* more lines than its text holds, and its last rendered line is never an
\* empty line that exists only because of the segment's trailing line break
\* (an empty last line is an empty line of the document: it follows a line
\* break of the segment, or the segment starts a line).
C7_NoTerminatorLine ==
    Updated =>
      \A k \in 1..Len(diffResult) :
        LET value == diffResult[k].value
            lines == resultEl.children[k].lines
        IN  /\ Len(lines) <= Len(LinesOf(value))
            /\ (/\ Len(lines) > 0
                /\ EndsWithNL(value)
                /\ Len(lines[Len(lines)].textContent) = 2)
               => \/ (Len(value) >= 2 /\ value[Len(value) - 1] = NL)
                  \/ StartsLine(diffResult, k)


-----------------------------------------------------------------------------
(* The modal's loads *)

\* A loadFilesContent call returns false in this step.
LoadFails ==
    \E load \in InFlight :
       /\ load.pc \in {"read1", "read2"}
       /\ loads' = Moved(load, Returned(load, FALSE))

\* A caller resumes in this step from a loadFilesContent call that returned false.
FailureHandled ==
    \E load \in InFlight :
       /\ load.pc = "returned"
       /\ ~load.result
       /\ loads' = Finished(load)

\* C2: when loadFilesContent returns false the user is notified and nothing
\* is rendered; when its caller (onOpen or selectFile) resumes, the result
\* area shows no diff segment; and every diff that is produced is of two
\* non-empty texts read from the vault, file1's and a file's, never of an
\* empty string standing for a missing content.
C2_FailedLoadShowsNoDiff ==
    [][ /\ LoadFails =>
             /\ notices' \in ErrorNotices
             /\ resultEl' = resultEl
             /\ diffResult' = diffResult
        /\ FailureHandled =>
             /\ resultEl'.children = <<>>
             /\ diffResult' = <<>>
        /\ (lastCall'.op = "updateDiffDisplay" /\ diffResult' # <<>>) =>
             /\ lastCall'.content1 # <<>>
             /\ lastCall'.content2 # <<>>
             /\ lastCall'.content1 = vault[file1]
             /\ \E f \in MdFiles : lastCall'.content2 = vault[f]
      ]_vars

\* A load started by selectFile has returned false, and the user has been
\* notified, while the diff of an earlier selection is displayed.
C2_Witness ==
    /\ notices \in ErrorNotices
    /\ resultEl.children # <<>>
    /\ \E load \in InFlight :
          load.caller = "selectFile" /\ load.pc = "returned" /\ ~load.result

\* This step calls updateDiffDisplay: a caller resumes, or the search box
\* is cleared.
UpdateStep ==
    /\ lastCall'.op = "updateDiffDisplay"
    /\ \/ loads' = loads
       \/ BagCardinality(loads') < BagCardinality(loads)

\* C8: an updateDiffDisplay call that follows an updateDiffDisplay call with
\* the same file2, file1Content and file2Content leaves the result area
\* exactly as that call left it.
C8_Idempotent ==
    [][ (UpdateStep /\ lastCall'.repeated) => resultEl' = resultEl ]_vars

\* A diff has been rendered twice in a row from the same inputs.
C8_Witness ==
    /\ lastCall.op = "updateDiffDisplay"
    /\ lastCall.repeated
    /\ Len(resultEl.children) >= 2

-----------------------------------------------------------------------------
(* The file-menu flow *)

\* C9: once fileToCompare is cleared, no step opens a comparison modal, a
\* click on a "Compare with" item of a menu built earlier included, until a
\* "Select for compare" click sets it again.
C9_ClearedSelectionOpensNothing ==
    [][ fileToCompare = NoFile =>
           (modalCount' = modalCount /\ modal' = modal) ]_vars

\* After onunload, a "Compare with" item of a menu built before it has been
\* clicked and refused.
C9_Witness ==
    /\ ~registered
    /\ fileToCompare = NoFile
    /\ \E menu \in menus : menu.compare
    /\ notices = "Error: First file for comparison is not selected anymore."

\* C10: a DiffModal opened by a "Compare with" click has file1 equal to
\* fileToCompare at click time, file2 equal to the file of the clicked menu,
\* and file1 differs from file2.
C10_NeverSelfCompare ==
    [][ modalCount' # modalCount =>
           /\ modal'.file1 = fileToCompare
           /\ \E menu \in menus : menu.compare /\ modal'.file2 = menu.file
           /\ modal'.file1 # modal'.file2 ]_vars

-----------------------------------------------------------------------------
(* Overlapping selections *)

\* selectFile resumes in this step from a failed load, after a newer
\* selectFile call has been made.
StaleFailureHandled ==
    \E load \in InFlight :
       /\ load.caller = "selectFile"
       /\ ~load.latest
       /\ load.pc = "returned"
       /\ ~load.result
       /\ loads' = Finished(load)

\* C11: in the modal with file selection, every diff that is rendered is of
\* the most recently selected file and of the content read for that file,
\* and a failed load of an earlier selection, handled while a later
\* selection stands, leaves file2 and file2Content as they are.
C11_DiffIsOfLatestSelection ==
    [][ /\ (~initialFile2Provided /\ UpdateStep /\ diffResult' # <<>>) =>
             /\ lastCall'.file2 = lastSelected'
             /\ lastCall'.content2 = vault[lastSelected']
        /\ (StaleFailureHandled /\ lastSelected # NoFile) =>
             /\ file2' = file2
             /\ file2Content' = file2Content
      ]_vars

=============================================================================
